---- MODULE Spec2Model ----
(***************************************************************************)
(* Model of lexmapr/ontofetch.py: the Ontology class builds the table      *)
(* struct['specifications'] from hierarchy query rows (do_entities,        *)
(* do_entity), enriches each ingested record with text and synonyms        *)
(* (do_entity_text, do_entity_synonyms) and hands the table to the output  *)
(* writers (__main__).                                                     *)
(*                                                                         *)
(* Python dictionaries are functions with a string domain; a key that is   *)
(* not in a dictionary is not in the DOMAIN.  Python strings that the code *)
(* takes apart (raw synonym values) are sequences of one-character         *)
(* strings.                                                                *)
(***************************************************************************)
EXTENDS Integers, Sequences, FiniteSets, TLC

(***************************************************************************)
(* Bounds of the model.                                                    *)
(***************************************************************************)
MaxRoots == 2
MaxRows == 2
MaxEnrich == 2
PermRows == 2
NormLen == 4

(***************************************************************************)
(* Values.                                                                 *)
(***************************************************************************)
\* Python's None, where an id is expected.
NoneVal == "<None>"

NoError == "ok"
KeyErrorId == "KeyError: 'id'"
KeyErrorParentId == "KeyError: 'parent_id'"

\* Ids the hierarchy query returns in its ?id column and its ?parent_id column.
RowIds == {"T1", "R"}
ParentIds == {"R", "R2"}

\* str(None)
StrNone == "None"

AllKeys == RowIds \cup ParentIds

EmptyDict == [k \in {} |-> NoneVal]

\* A hierarchy row as do_query_table hands it over: the ?id binding may be
\* missing from the dictionary, ?parent_id may be None.
RowOf(id, parent_id) == ("id" :> id) @@ ("parent_id" :> parent_id) @@ ("label" :> "Term")

RowNoId(parent_id) == ("parent_id" :> parent_id) @@ ("label" :> "Term")

HierarchyRows ==
    {RowOf(i, p) : i \in RowIds, p \in ParentIds \cup {NoneVal}}
        \cup {RowNoId(p) : p \in ParentIds \cup {NoneVal}}

\* struct['metadata'] after set_ontology_metadata.
Metadata == ("prefix" :> "GENEPIO")

(***************************************************************************)
(* Sequences.                                                              *)
(***************************************************************************)
Range(s) == {s[i] : i \in 1..Len(s)}

SeqsUpTo(S, n) == UNION {[1..k -> S] : k \in 0..n}

\* The permutations of a sequence.
Perms(s) ==
    LET n == Len(s)
        bij == {f \in [1..n -> 1..n] : \A i, j \in 1..n : f[i] = f[j] => i = j}
    IN {[i \in 1..n |-> s[f[i]]] : f \in bij}

RECURSIVE Concat(_)
Concat(ss) == IF ss = <<>> THEN <<>> ELSE Head(ss) \o Concat(Tail(ss))

(***************************************************************************)
(* Python str methods used by do_entity_synonyms, on sequences of          *)
(* characters.                                                             *)
(***************************************************************************)
Whitespace == {" "}

\* s.replace('\\n', ';'): every backslash followed by n becomes ';'.
RECURSIVE ReplaceEscapedNewline(_)
ReplaceEscapedNewline(s) ==
    IF s = <<>> THEN <<>>
    ELSE IF Len(s) >= 2 /\ s[1] = "\\" /\ s[2] = "n"
         THEN <<";">> \o ReplaceEscapedNewline(SubSeq(s, 3, Len(s)))
         ELSE <<s[1]>> \o ReplaceEscapedNewline(Tail(s))

RECURSIVE LStrip(_)
LStrip(s) == IF s # <<>> /\ Head(s) \in Whitespace THEN LStrip(Tail(s)) ELSE s

RECURSIVE RStrip(_)
RStrip(s) ==
    IF s # <<>> /\ s[Len(s)] \in Whitespace THEN RStrip(SubSeq(s, 1, Len(s) - 1)) ELSE s

\* s.strip()
Strip(s) == RStrip(LStrip(s))

\* s.replace('"', '')
RemoveQuotes(s) == SelectSeq(s, LAMBDA c : c # "\"")

\* s.split(';'): never the empty list; ''.split(';') is [''].
RECURSIVE Split(_, _)
Split(s, d) ==
    IF \A i \in 1..Len(s) : s[i] # d THEN <<s>>
    ELSE LET i == CHOOSE k \in 1..Len(s) : s[k] = d /\ \A j \in 1..(k - 1) : s[j] # d
         IN <<SubSeq(s, 1, i - 1)>> \o Split(SubSeq(s, i + 1, Len(s)), d)

\* row[field].replace('\\n', ';').strip().replace('"','').split(';')
Phrases(raw) == Split(RemoveQuotes(Strip(ReplaceEscapedNewline(raw))), ";")

(***************************************************************************)
(* The graph the text and synonym queries run against.                     *)
(***************************************************************************)
\* onto_helper.SYNONYM_FIELDS, the ?variables of the entity_synonyms query,
\* in the order the docstring of do_entity_synonyms lists their relations.
SYNONYM_FIELDS ==
    <<"oboInOwl_hasSynonym", "oboInOwl_hasBroadSynonym", "oboInOwl_hasExactSynonym",
      "oboInOwl_hasNarrowSynonym", "IAO_0000118">>

\* field.replace('_', ':', 1) on the fields of SYNONYM_FIELDS.
PrefixField(field) ==
    CASE field = "oboInOwl_hasSynonym" -> "oboInOwl:hasSynonym"
      [] field = "oboInOwl_hasBroadSynonym" -> "oboInOwl:hasBroadSynonym"
      [] field = "oboInOwl_hasExactSynonym" -> "oboInOwl:hasExactSynonym"
      [] field = "oboInOwl_hasNarrowSynonym" -> "oboInOwl:hasNarrowSynonym"
      [] field = "IAO_0000118" -> "IAO:0000118"

\* A synonym query row: every field bound to a raw string, the empty string
\* standing for an unbound (None) or empty value, both false in `if row[field]`.
SynonymRow(filled, raw) ==
    [f \in Range(SYNONYM_FIELDS) |-> IF f \in filled THEN raw ELSE <<>>]

\* graph.query(queries['entity_text'], {'datum': id}): T1 carries a label and
\* a definition, no other term is annotated.
TextQuery(id) ==
    IF id = "T1"
    THEN <<("label" :> "Term One") @@ ("definition" :> "The first term")>>
    ELSE <<>>

\* graph.query(queries['entity_synonyms'], {'datum': id}): T1 has the exact
\* synonyms "a;b".
SynonymQuery(id) ==
    IF id = "T1"
    THEN <<SynonymRow({"oboInOwl_hasExactSynonym"}, <<"a", ";", "b">>)>>
    ELSE <<>>

(***************************************************************************)
(* onto_helper methods called by ontofetch.py.                             *)
(***************************************************************************)
\* set_entity_default(struct, 'specifications', id, value): value becomes the
\* entry of id unless id has an entry already.
SetEntityDefault(specs, id, value) ==
    IF id \in DOMAIN specs THEN specs ELSE specs @@ (id :> value)

\* get_parent_id(myDict): the row's parent id, None when it has none.
GetParentId(myDict) ==
    IF "parent_id" \in DOMAIN myDict THEN myDict["parent_id"] ELSE NoneVal

(***************************************************************************)
(* Ontology.do_entity_text, Ontology.do_entity_synonyms                    *)
(***************************************************************************)
\* str(x) for an id or None.
Str(x) == IF x = NoneVal THEN StrNone ELSE x

\* dict.update
Update(d, e) == [k \in DOMAIN d \cup DOMAIN e |-> IF k \in DOMAIN e THEN e[k] ELSE d[k]]

RECURSIVE UpdateAll(_, _)
UpdateAll(d, rows) == IF rows = <<>> THEN d ELSE UpdateAll(Update(d, Head(rows)), Tail(rows))

\* Mutant of DoEntityText: the query is skipped for a record that has a label.
DoEntityTextUnlabelledOnly(specs, id) ==
    IF "label" \in DOMAIN specs[id]
    THEN [specs |-> specs, queried |-> <<>>]
    ELSE [specs |-> [specs EXCEPT ![id] = UpdateAll(@, TextQuery(id))], queried |-> <<id>>]

\* do_entity_text(id): the text query is issued for id and every row it
\* returns is merged into the record.  `queried` lists the ids queried.
DoEntityText(specs, id) ==
    [specs |-> [specs EXCEPT ![id] = UpdateAll(@, TextQuery(id))], queried |-> <<id>>]

\* Mutant of AppendPhrases: `=` where the code has `+=`.
AppendPhrasesReplaces(spec, prefix_field, phrases) ==
    IF prefix_field \in DOMAIN spec
    THEN [spec EXCEPT ![prefix_field] = phrases]
    ELSE spec @@ (prefix_field :> phrases)

\* spec[prefix_field] += phrases, or spec[prefix_field] = phrases on a new key.
AppendPhrases(spec, prefix_field, phrases) ==
    IF prefix_field \in DOMAIN spec
    THEN [spec EXCEPT ![prefix_field] = @ \o phrases]
    ELSE spec @@ (prefix_field :> phrases)

\* The body of `for field in SYNONYM_FIELDS` for one row.
RECURSIVE MergeSynonymFields(_, _, _)
MergeSynonymFields(spec, row, fields) ==
    IF fields = <<>> THEN spec
    ELSE LET field == Head(fields)
             phrases == Phrases(row[field])
             merged ==
                 IF row[field] # <<>> /\ phrases # <<>>
                 THEN AppendPhrases(spec, PrefixField(field), phrases)
                 ELSE spec
         IN MergeSynonymFields(merged, row, Tail(fields))

\* `for row in rows` of do_entity_synonyms.
RECURSIVE MergeSynonymRows(_, _)
MergeSynonymRows(spec, rows) ==
    IF rows = <<>> THEN spec
    ELSE MergeSynonymRows(MergeSynonymFields(spec, Head(rows), SYNONYM_FIELDS), Tail(rows))

\* do_entity_synonyms(id)
DoEntitySynonyms(specs, id) ==
    [specs |-> [specs EXCEPT ![id] = MergeSynonymRows(@, SynonymQuery(id))],
     queried |-> <<id>>]

(***************************************************************************)
(* Ontology.do_entity                                                      *)
(***************************************************************************)
\* The branch taken when the id has an entry already: a parent that differs
\* from the entry's parent_id is appended to other_parents.
TrackOtherParent(existing, parent_id) ==
    LET existing_p_id == existing["parent_id"]
    IN IF parent_id # NoneVal /\ existing_p_id # NoneVal /\ parent_id # existing_p_id
       THEN IF "other_parents" \in DOMAIN existing
            THEN [existing EXCEPT !["other_parents"] = Append(@, parent_id)]
            ELSE existing @@ ("other_parents" :> <<parent_id>>)
       ELSE existing

Raised(specs, e) == [specs |-> specs, err |-> e, textQueried |-> <<>>, synQueried |-> <<>>]

\* do_entity(myDict).  Rows carry no replaced_by key, so that branch is not taken.
DoEntity(specs, myDict) ==
    IF "id" \notin DOMAIN myDict THEN Raised(specs, KeyErrorId)
    ELSE LET id == Str(myDict["id"])
             withId == [myDict EXCEPT !["id"] = id]
             row == IF "prefix" \in DOMAIN Metadata
                    THEN withId @@ ("ontology" :> Metadata["prefix"])
                    ELSE withId
         IN IF id \in DOMAIN specs /\ "parent_id" \notin DOMAIN specs[id]
            THEN Raised(specs, KeyErrorParentId)
            ELSE LET tracked ==
                         IF id \in DOMAIN specs
                         THEN [specs EXCEPT ![id] = TrackOtherParent(@, row["parent_id"])]
                         ELSE specs
                     stored == SetEntityDefault(tracked, id, row)
                     text == DoEntityText(stored, id)
                     syn == DoEntitySynonyms(text.specs, id)
                 IN [specs |-> syn.specs, err |-> NoError,
                     textQueried |-> text.queried, synQueried |-> syn.queried]

(***************************************************************************)
(* Ontology.do_entities                                                    *)
(***************************************************************************)
\* Mutant of CollectParent: the membership test is inverted.
CollectParentInverted(parents, parent_id) ==
    IF parent_id # NoneVal /\ parent_id \in Range(parents)
    THEN Append(parents, parent_id)
    ELSE parents

\* parents.append(parent_id) unless it is None or in the list already.
CollectParent(parents, parent_id) ==
    IF parent_id # NoneVal /\ parent_id \notin Range(parents)
    THEN Append(parents, parent_id)
    ELSE parents

\* The stub the second pass inserts.
Stub(parent_id) == ("id" :> parent_id) @@ ("datatype" :> "entity")

\* Mutant of Backfill: the loop stops one short of the end of the list.
RECURSIVE BackfillAllButLast(_, _)
BackfillAllButLast(specs, parents) ==
    IF Len(parents) <= 1 THEN specs
    ELSE LET parent_id == Head(parents)
             next == IF parent_id \notin DOMAIN specs
                     THEN specs @@ (parent_id :> (("id" :> parent_id) @@ ("datatype" :> "entity")))
                     ELSE specs
         IN BackfillAllButLast(next, Tail(parents))

\* 2nd pass: every collected parent without an entry gets a stub.
RECURSIVE Backfill(_, _)
Backfill(specs, parents) ==
    IF parents = <<>> THEN specs
    ELSE LET parent_id == Head(parents)
             next == IF parent_id \notin DOMAIN specs
                     THEN SetEntityDefault(specs, parent_id, Stub(parent_id))
                     ELSE specs
         IN Backfill(next, Tail(parents))

\* 1st pass over the table; stops at the row whose do_entity raises.
RECURSIVE FirstPass(_, _, _)
FirstPass(specs, parents, table) ==
    IF table = <<>> THEN [specs |-> specs, parents |-> parents, err |-> NoError]
    ELSE LET res == DoEntity(specs, Head(table))
         IN IF res.err # NoError
            THEN [specs |-> res.specs, parents |-> parents, err |-> res.err]
            ELSE FirstPass(res.specs, CollectParent(parents, GetParentId(Head(table))),
                           Tail(table))

\* do_entities(table): the table after the call, and the exception it raised.
DoEntities(specs, table) ==
    LET first == FirstPass(specs, <<>>, table)
    IN IF first.err # NoError
       THEN [specs |-> first.specs, err |-> first.err]
       ELSE [specs |-> Backfill(first.specs, first.parents), err |-> NoError]

IsStub(rec) == "datatype" \in DOMAIN rec /\ "parent_id" \notin DOMAIN rec

StubIds(specs) == {id \in DOMAIN specs : IsStub(specs[id])}

(***************************************************************************)
(* Ontology.__main__: one hierarchy query and one do_entities call per     *)
(* root of --root, then the output writers.  The rows of a query result    *)
(* are drawn one at a time as the loop of do_entities reaches them.        *)
(***************************************************************************)
VARIABLES
    specifications,  \* struct['specifications']
    parents,         \* the list `parents` of the running do_entities call
    pc,              \* "main" | "rows" | "output" | "aborted"
    err,             \* the exception that ended the run
    rootsDone,       \* roots of --root whose query has been issued
    rowsDone,        \* rows of the current table handed to do_entity
    calls,           \* history: do_entity calls made in the run
    attempted,       \* history: ids handed to do_entity
    parentRefs,      \* history: parent ids of the rows do_entity ingested
    firstParent,     \* history: id -> parent of the first row ingested for it
    laterParents,    \* history: id -> later parents other than the first, once each
    textQueries,     \* history: id -> text queries issued
    synQueries,      \* history: id -> synonym queries issued
    enrichLog,       \* history: the synonym query rows merged by do_entity_synonyms
    permRows,        \* a table handed to do_entities
    permAlt,         \* the same rows in another order
    altResult        \* do_entities on permAlt, from the same starting table

vars ==
    <<specifications, parents, pc, err, rootsDone, rowsDone, calls, attempted,
      parentRefs, firstParent, laterParents, textQueries, synQueries,
      enrichLog, permRows, permAlt, altResult>>

Unseen == "<unseen>"

RECURSIVE CountOf(_, _)
CountOf(s, x) ==
    IF s = <<>> THEN 0 ELSE (IF Head(s) = x THEN 1 ELSE 0) + CountOf(Tail(s), x)

\* The run before its first query, but for the table and the program counter.
Fresh ==
    /\ parents = <<>>
    /\ err = NoError
    /\ rootsDone = 0
    /\ rowsDone = 0
    /\ calls = 0
    /\ attempted = {}
    /\ parentRefs = {}
    /\ firstParent = [id \in AllKeys |-> Unseen]
    /\ laterParents = [id \in AllKeys |-> <<>>]
    /\ textQueries = [id \in AllKeys |-> 0]
    /\ synQueries = [id \in AllKeys |-> 0]
    /\ enrichLog = <<>>

NoPermutation ==
    /\ permRows = <<>>
    /\ permAlt = <<>>
    /\ altResult = [specs |-> EmptyDict, err |-> NoError]

Init ==
    /\ specifications = EmptyDict
    /\ pc = "main"
    /\ Fresh
    /\ NoPermutation

history ==
    <<calls, attempted, parentRefs, firstParent, laterParents, textQueries, synQueries,
      enrichLog, permRows, permAlt, altResult>>

\* The next root of options.root_uri: its tree query is issued and
\* do_entities starts on the result with an empty list of parents.
StartRoot ==
    /\ pc = "main"
    /\ rootsDone < MaxRoots
    /\ pc' = "rows"
    /\ rootsDone' = rootsDone + 1
    /\ rowsDone' = 0
    /\ parents' = <<>>
    /\ UNCHANGED <<specifications, err, history>>

\* One turn of `for myDict in table`: do_entity, then the row's parent is
\* collected.
IngestRow(myDict) ==
    /\ pc = "rows"
    /\ rowsDone < MaxRows
    /\ LET res == DoEntity(specifications, myDict)
           id == Str(myDict["id"])
           parent_id == GetParentId(myDict)
       IN /\ res.err = NoError
          /\ specifications' = res.specs
          /\ parents' = CollectParent(parents, parent_id)
          /\ attempted' = attempted \cup {id}
          /\ parentRefs' = parentRefs \cup ({parent_id} \ {NoneVal})
          /\ firstParent' =
                 IF firstParent[id] = Unseen
                 THEN [firstParent EXCEPT ![id] = myDict["parent_id"]]
                 ELSE firstParent
          /\ laterParents' =
                 IF /\ firstParent[id] # Unseen
                    /\ myDict["parent_id"] \notin {NoneVal, firstParent[id]}
                    /\ myDict["parent_id"] \notin Range(laterParents[id])
                 THEN [laterParents EXCEPT ![id] = Append(@, myDict["parent_id"])]
                 ELSE laterParents
          /\ textQueries' =
                 [k \in AllKeys |-> textQueries[k] + CountOf(res.textQueried, k)]
          /\ synQueries' =
                 [k \in AllKeys |-> synQueries[k] + CountOf(res.synQueried, k)]
    /\ rowsDone' = rowsDone + 1
    /\ calls' = calls + 1
    /\ UNCHANGED <<pc, err, rootsDone, enrichLog, permRows, permAlt, altResult>>

\* do_entity raises: nothing catches the exception and the run ends.
IngestRowRaises(myDict) ==
    /\ pc = "rows"
    /\ rowsDone < MaxRows
    /\ LET res == DoEntity(specifications, myDict)
       IN /\ res.err # NoError
          /\ specifications' = res.specs
          /\ err' = res.err
          /\ attempted' =
                 IF "id" \in DOMAIN myDict THEN attempted \cup {Str(myDict["id"])}
                 ELSE attempted
    /\ pc' = "aborted"
    /\ calls' = calls + 1
    /\ UNCHANGED <<parents, rootsDone, rowsDone, parentRefs, firstParent, laterParents,
                   textQueries, synQueries, enrichLog, permRows, permAlt, altResult>>

\* The table is exhausted: the 2nd pass of do_entities, and back to the roots.
FinishTable ==
    /\ pc = "rows"
    /\ specifications' = Backfill(specifications, parents)
    /\ pc' = "main"
    /\ UNCHANGED <<parents, err, rootsDone, rowsDone, history>>

\* No root is left: do_output_json and do_output_tsv get the table.
Output ==
    /\ pc = "main"
    /\ rootsDone >= 1
    /\ pc' = "output"
    /\ UNCHANGED <<specifications, parents, err, rootsDone, rowsDone, history>>

Next ==
    \/ StartRoot
    \/ \E myDict \in HierarchyRows : IngestRow(myDict)
    \/ \E myDict \in HierarchyRows : IngestRowRaises(myDict)
    \/ FinishTable
    \/ Output

Spec == Init /\ [][Next]_vars

(***************************************************************************)
(* do_entity_synonyms on its own: the record of R right after its first    *)
(* hierarchy row, enriched again and again with whatever row the synonym   *)
(* query returns.                                                          *)
(***************************************************************************)
SynonymSubject == "R"

\* Raw values of a synonym annotation: "a;b", "c", "a", "a; b".
SynonymValues == {<<"a", ";", "b">>, <<"c">>, <<"a">>, <<"a", ";", " ", "b">>}

\* Rows of the synonym query: no field bound, one field bound, all bound.
SynonymRowsOver(values) ==
    {SynonymRow({}, <<>>)}
        \cup {SynonymRow({f}, raw) : f \in Range(SYNONYM_FIELDS), raw \in values}
        \cup {SynonymRow(Range(SYNONYM_FIELDS), raw) : raw \in values}

SynInit ==
    /\ specifications = DoEntity(EmptyDict, RowOf(SynonymSubject, "R2")).specs
    /\ pc = "synonyms"
    /\ Fresh
    /\ NoPermutation

\* do_entity_synonyms(id) when the query returns `row`.
EnrichSynonyms(row, bound) ==
    /\ pc = "synonyms"
    /\ Len(enrichLog) < bound
    /\ specifications' =
           [specifications EXCEPT ![SynonymSubject] = MergeSynonymRows(@, <<row>>)]
    /\ enrichLog' = Append(enrichLog, row)
    /\ UNCHANGED <<parents, pc, err, rootsDone, rowsDone, calls, attempted, parentRefs,
                   firstParent, laterParents, textQueries, synQueries,
                   permRows, permAlt, altResult>>

SynNext == \E row \in SynonymRowsOver(SynonymValues) : EnrichSynonyms(row, MaxEnrich)

SpecSyn == SynInit /\ [][SynNext]_vars

(***************************************************************************)
(* One enrichment with any raw value of up to NormLen characters.          *)
(***************************************************************************)
Chars == {"a", " ", ";", "\"", "\\", "n"}

RawValues == SeqsUpTo(Chars, NormLen) \ {<<>>}

NormNext ==
    \E raw \in RawValues : EnrichSynonyms(SynonymRow({"oboInOwl_hasExactSynonym"}, raw), 1)

SpecNorm == SynInit /\ [][NormNext]_vars

(***************************************************************************)
(* do_entities on a table and on a permutation of it, from the same        *)
(* starting table: the empty table, or the table after a do_entities call  *)
(* on a single row.                                                        *)
(***************************************************************************)
StartTables ==
    {EmptyDict} \cup
    {DoEntities(EmptyDict, <<row>>).specs :
        row \in {r \in HierarchyRows : DoEntities(EmptyDict, <<r>>).err = NoError}}

PermInit ==
    /\ specifications \in StartTables
    /\ pc = "do_entities"
    /\ Fresh
    /\ permRows \in SeqsUpTo(HierarchyRows, PermRows)
    /\ permAlt \in Perms(permRows)
    /\ altResult = [specs |-> EmptyDict, err |-> NoError]

PermRun ==
    /\ pc = "do_entities"
    /\ LET res == DoEntities(specifications, permRows)
       IN /\ specifications' = res.specs
          /\ err' = res.err
    /\ altResult' = DoEntities(specifications, permAlt)
    /\ pc' = "returned"
    /\ UNCHANGED <<parents, rootsDone, rowsDone, calls, attempted, parentRefs,
                   firstParent, laterParents, textQueries, synQueries, enrichLog,
                   permRows, permAlt>>

SpecPerm == PermInit /\ [][PermRun]_vars

(***************************************************************************)
(* Properties.                                                             *)
(***************************************************************************)
IsFull(rec) == "parent_id" \in DOMAIN rec

OtherParents(rec) == IF "other_parents" \in DOMAIN rec THEN rec["other_parents"] ELSE <<>>

IsSuffix(t, s) == Len(t) <= Len(s) /\ SubSeq(s, Len(s) - Len(t) + 1, Len(s)) = t

\* C1: when the run reaches the output writers, every id that was the
\* parent_id of an ingested row is a key of the table, as a full record or
\* as a stub {id, datatype: "entity"}.
C1_ParentsInFinalTable ==
    pc = "output" =>
        \A p \in parentRefs :
            /\ p \in DOMAIN specifications
            /\ IsFull(specifications[p]) \/ specifications[p] = Stub(p)

\* C1 witness: a finished run in which a referenced parent is a full record,
\* another one is a stub, and a term with two parents has both in the table.
C1_Witness ==
    /\ pc = "output"
    /\ {"R", "R2"} \subseteq parentRefs
    /\ "R" \in DOMAIN specifications /\ IsFull(specifications["R"])
    /\ "R2" \in DOMAIN specifications /\ specifications["R2"] = Stub("R2")
    /\ "T1" \in DOMAIN specifications /\ OtherParents(specifications["T1"]) # <<>>

\* C2: for every id ingested with a parent, parent_id is the parent of the
\* first row seen for the id and other_parents holds each later parent that
\* differs from it exactly once, in order of first appearance.
C2_MultiParentTracking ==
    \A id \in DOMAIN specifications :
        firstParent[id] \notin {Unseen, NoneVal} =>
            /\ specifications[id]["parent_id"] = firstParent[id]
            /\ OtherParents(specifications[id]) = laterParents[id]

\* C3: every id handed to do_entity as a hierarchy row, also one that was
\* a stub before, is ingested without error and its record holds the row's
\* data and not the stub shape.
C3_StubPrecedence ==
    /\ err # KeyErrorParentId
    /\ \A id \in attempted :
           /\ id \in DOMAIN specifications
           /\ ~IsStub(specifications[id])
           /\ {"parent_id", "label"} \subseteq DOMAIN specifications[id]

\* C4: once a stub has been inserted, no hierarchy row is handed to
\* do_entity any more.
C4_BackfillAfterAllIngestion ==
    [][StubIds(specifications) # {} => calls' = calls]_vars

\* C5: the text query and the synonym query are issued at most once per id.
C5_QueriedAtMostOnce ==
    \A id \in AllKeys : textQueries[id] <= 1 /\ synQueries[id] <= 1

\* The rows of the text query are in the record.
TextMerged(rec, id) ==
    \A i \in 1..Len(TextQuery(id)) :
        \A k \in DOMAIN TextQuery(id)[i] : k \in DOMAIN rec /\ rec[k] = TextQuery(id)[i][k]

\* The phrases of the synonym query are the end of the record's lists.
SynonymsMerged(rec, id) ==
    \A i \in 1..Len(SynonymQuery(id)) :
        \A f \in Range(SYNONYM_FIELDS) :
            SynonymQuery(id)[i][f] # <<>> =>
                /\ PrefixField(f) \in DOMAIN rec
                /\ IsSuffix(Phrases(SynonymQuery(id)[i][f]), rec[PrefixField(f)])

\* C6, as stated: when the table reaches the output writers, the text query
\* and the synonym query have been issued for every id in it, stubs included.
C6_EveryIdEnriched ==
    pc = "output" =>
        \A id \in DOMAIN specifications : textQueries[id] >= 1 /\ synQueries[id] >= 1

\* C6, amended: when the table reaches the output writers, every record that
\* came from a hierarchy row has had both queries issued and their results
\* merged, and no query was issued for a stub of the second pass.
C6_IngestedIdsEnriched ==
    pc = "output" =>
        \A id \in DOMAIN specifications :
            IF IsStub(specifications[id])
            THEN textQueries[id] = 0 /\ synQueries[id] = 0
            ELSE /\ textQueries[id] >= 1 /\ synQueries[id] >= 1
                 /\ TextMerged(specifications[id], id)
                 /\ SynonymsMerged(specifications[id], id)

\* C6 witness: a finished run whose table holds a stub and the enriched T1.
C6_Witness ==
    /\ pc = "output"
    /\ StubIds(specifications) # {}
    /\ "T1" \in DOMAIN specifications
    /\ specifications["T1"]["label"] = "Term One"
    /\ "oboInOwl:hasExactSynonym" \in DOMAIN specifications["T1"]

\* The phrases the enrichments of the log gave to a field, in order.
LoggedPhrases(log, f) ==
    Concat([i \in 1..Len(log) |-> IF log[i][f] # <<>> THEN Phrases(log[i][f]) ELSE <<>>])

\* C7: after any sequence of enrichments, each category's list is the
\* concatenation, in enrichment order, of the phrase lists of the enrichments
\* that matched it, and a category that none matched has no key.
C7_SynonymsAppendOnly ==
    \A f \in Range(SYNONYM_FIELDS) :
        LET rec == specifications[SynonymSubject]
        IN IF \E i \in 1..Len(enrichLog) : enrichLog[i][f] # <<>>
           THEN /\ PrefixField(f) \in DOMAIN rec
                /\ rec[PrefixField(f)] = LoggedPhrases(enrichLog, f)
           ELSE PrefixField(f) \notin DOMAIN rec

\* C7 witness: "a;b" then "c" as exact synonyms give ["a", "b", "c"].
C7_Witness ==
    /\ Len(enrichLog) = 2
    /\ enrichLog[1]["oboInOwl_hasExactSynonym"] = <<"a", ";", "b">>
    /\ enrichLog[2]["oboInOwl_hasExactSynonym"] = <<"c">>
    /\ specifications[SynonymSubject]["oboInOwl:hasExactSynonym"]
           = << <<"a">>, <<"b">>, <<"c">> >>
    /\ "oboInOwl:hasSynonym" \notin DOMAIN specifications[SynonymSubject]

\* C8: a hierarchy row without an id is skipped: no error ends the run at
\* that row, and the rows after it and the second pass still run.
C8_MissingIdRowSkipped ==
    err # KeyErrorId

\* C9: do_entities on two permutations of the same rows, from the same
\* table, raises for both or for neither, and when it returns the two tables
\* have the same ids and the same stub ids.
C9_OrderIndependentMembership ==
    pc = "returned" =>
        /\ (err = NoError) <=> (altResult.err = NoError)
        /\ err = NoError =>
               /\ DOMAIN specifications = DOMAIN altResult.specs
               /\ StubIds(specifications) = StubIds(altResult.specs)

\* C9 witness: two different orders of rows that leave a stub and a term
\* with other_parents behind.
C9_Witness ==
    /\ pc = "returned"
    /\ err = NoError
    /\ permAlt # permRows
    /\ StubIds(specifications) # {}
    /\ \E id \in DOMAIN specifications :
           /\ OtherParents(specifications[id]) # <<>>
           /\ IsFull(altResult.specs[id])
           /\ altResult.specs[id]["parent_id"] # specifications[id]["parent_id"]

\* The phrase list C10 describes: line-break escapes to ';', quotes removed,
\* split on ';', each phrase trimmed.
RECURSIVE StripEach(_)
StripEach(ps) == IF ps = <<>> THEN <<>> ELSE <<Strip(Head(ps))>> \o StripEach(Tail(ps))

TrimmedPhrases(raw) == StripEach(Split(RemoveQuotes(ReplaceEscapedNewline(raw)), ";"))

\* C10: the list stored for a non-empty raw value is the list of its trimmed
\* phrases, so no stored phrase starts or ends with whitespace.
C10_PhrasesTrimmed ==
    \A i \in 1..Len(enrichLog) :
        LET raw == enrichLog[i]["oboInOwl_hasExactSynonym"]
            stored == specifications[SynonymSubject]["oboInOwl:hasExactSynonym"]
        IN /\ stored = TrimmedPhrases(raw)
           /\ \A j \in 1..Len(stored) :
                  stored[j] # <<>> =>
                      stored[j][1] \notin Whitespace /\ stored[j][Len(stored[j])] \notin Whitespace

====
